---- MODULE Spec2Model ----
(***************************************************************************)
(* The debt payoff projection engine of simplefi (debt/utils.py,           *)
(* DebtSummaryTable) together with the CreditLine balance arithmetic       *)
(* (debt/models.py).  Currency amounts are whole numbers of cents (the        *)
(* DecimalFields carry two decimal places); interest rates and percentages *)
(* are drawn from values for which the Decimal arithmetic of the source is *)
(* exact on cents (see ExactArithmetic and ExactCall).                     *)
(***************************************************************************)
EXTENDS Integers, Sequences, FiniteSets, TLC

VARIABLES
    creditlines,    \* CreditLine rows of the user: name -> fields
    statements,     \* Statement rows: set of [account, year, month, balance]
    budget_obj,     \* the user's "debt" Budget row: [exists, value]
    now,            \* timezone.now(): [year, month]
    pc,             \* "start" | "loop" | "done": position in __init__/calc_rows
    accs,           \* self.accs
    warnings,       \* self.warnings
    latest_stmnts,  \* self.latest_stmnts
    balances,       \* self.balances
    names,          \* self.names
    debt_budget,    \* self.debt_budget
    month,          \* self.month
    year,           \* self.year
    rows,           \* self.rows
    do_forecasting, \* self.do_forecasting
    fmt_rows,       \* what the last call of formatted_rows returned
    call,           \* the last direct call of a CreditLine method, its result
    count,          \* the loop counter of the function debt_summary
    counts,         \* the counts dict of the last statement bulk upload
    request         \* the last request a statement view has handled

vars == <<creditlines, statements, budget_obj, now, pc, accs, warnings,
          latest_stmnts, balances, names, debt_budget, month, year, rows,
          do_forecasting, fmt_rows, call, count, counts, request>>

db == <<creditlines, statements, budget_obj, now, do_forecasting>>

(***************************************************************************)
(* Program constants                                                       *)
(***************************************************************************)
MAX_ROWS == 120

\* decimal_places=2: one currency unit is 100 cents
UnitsPerDollar == 100

Dollars(n) == n * UnitsPerDollar

MonthAbbr == <<"Jan", "Feb", "Mar", "Apr", "May", "Jun",
               "Jul", "Aug", "Sep", "Oct", "Nov", "Dec">>

NoStatementData == "No statement data for debt summary table"
NoDebtBudget == "No debt budget specified"

(***************************************************************************)
(* Arithmetic helpers                                                      *)
(***************************************************************************)
Min(a, b) == IF a <= b THEN a ELSE b
Max(a, b) == IF a >= b THEN a ELSE b
Abs(x) == IF x < 0 THEN -x ELSE x

RECURSIVE SumOver(_, _)
SumOver(f, S) ==
    IF S = {} THEN 0
    ELSE LET x == CHOOSE y \in S : TRUE IN f[x] + SumOver(f, S \ {x})

SeqToSet(s) == {s[i] : i \in 1..Len(s)}

\* (year, month) ordering used by order_by("year", "month") and date min()
DateLE(y1, m1, y2, m2) == y1 < y2 \/ (y1 = y2 /\ m1 <= m2)

(***************************************************************************)
(* CreditLine (debt/models.py)                                             *)
(***************************************************************************)
statement_set(a) == {s \in statements : s.account = a}

FirstStatement(a) ==
    CHOOSE s \in statement_set(a) :
        \A t \in statement_set(a) : DateLE(s.year, s.month, t.year, t.month)

LastStatement(a) ==
    CHOOSE s \in statement_set(a) :
        \A t \in statement_set(a) : DateLE(t.year, t.month, s.year, s.month)

balance(a) ==
    IF statement_set(a) # {} THEN LastStatement(a).balance
    ELSE creditlines[a].credit_line

\* the date properties are only read for accounts that have statements
earliest_statement_date(a) ==
    [year |-> FirstStatement(a).year, month |-> FirstStatement(a).month]

latest_statement_date(a) ==
    [year |-> LastStatement(a).year, month |-> LastStatement(a).month]

\* variant: the payment is not capped at the balance
min_pay_Uncapped(a, bal) ==
    Max(creditlines[a].min_pay_dlr,
        (creditlines[a].min_pay_pct * bal) \div 100)

\* variant: only the percentage is capped at the balance, not the floor
min_pay_CapsPercentOnly(a, bal) ==
    Max(creditlines[a].min_pay_dlr,
        Min((creditlines[a].min_pay_pct * bal) \div 100, bal))

\* lines 81-84
min_pay(a, bal) ==
    Min(Max(creditlines[a].min_pay_dlr,
            (creditlines[a].min_pay_pct * bal) \div 100),
        bal)

\* variant: the payment is taken out before the interest is added
forecast_next_PayFirst(a, bal) ==
    Max(((bal - min_pay(a, bal)) * (1200 + creditlines[a].interest_rate))
            \div 1200,
        0)

\* variant: the floor at zero is forgotten
forecast_next_NoFloor(a, bal) ==
    (bal * (1200 + creditlines[a].interest_rate)) \div 1200 - min_pay(a, bal)

forecast_next(a, bal) ==
    Max((bal * (1200 + creditlines[a].interest_rate)) \div 1200
            - min_pay(a, bal),
        0)

\* variant: a month without a statement carries the previous balance over
calc_balance_CarriesPrev(a, mo, yr, prev_mo_bal, latest_stmnt_date, latest_bal_in) ==
    LET before_or_on_latest_statement ==
            yr < latest_stmnt_date.year
            \/ (mo <= latest_stmnt_date.month /\ yr = latest_stmnt_date.year)
        found == {s \in statement_set(a) : s.year = yr /\ s.month = mo}
    IN  IF before_or_on_latest_statement
        THEN IF found # {}
             THEN [bal |-> (CHOOSE s \in found : TRUE).balance, min_pay |-> {}]
             ELSE [bal |-> prev_mo_bal, min_pay |-> {}]
        ELSE [bal |-> forecast_next(a, prev_mo_bal),
              min_pay |-> {min_pay(a, prev_mo_bal)}]

\* variant: year and month are each compared on their own
calc_balance_Componentwise(a, mo, yr, prev_mo_bal, latest_stmnt_date, latest_bal_in) ==
    LET latest_bal == IF latest_bal_in # 0 THEN latest_bal_in ELSE balance(a)
        before_or_on_latest_statement ==
            yr <= latest_stmnt_date.year /\ mo <= latest_stmnt_date.month
        found == {s \in statement_set(a) : s.year = yr /\ s.month = mo}
    IN  IF before_or_on_latest_statement
        THEN IF found # {}
             THEN [bal |-> (CHOOSE s \in found : TRUE).balance, min_pay |-> {}]
             ELSE [bal |-> latest_bal, min_pay |-> {}]
        ELSE [bal |-> forecast_next(a, prev_mo_bal),
              min_pay |-> {min_pay(a, prev_mo_bal)}]

\* Returns [bal, min_pay]; min_pay is {} for None and {v} for the value v.
calc_balance(a, mo, yr, prev_mo_bal, latest_stmnt_date, latest_bal_in) ==
    LET latest_bal == IF latest_bal_in # 0 THEN latest_bal_in ELSE balance(a)
        before_or_on_latest_statement ==
            yr < latest_stmnt_date.year
            \/ (mo <= latest_stmnt_date.month /\ yr = latest_stmnt_date.year)
        found == {s \in statement_set(a) : s.year = yr /\ s.month = mo}
    IN  IF before_or_on_latest_statement
        THEN IF found # {}
             THEN [bal |-> (CHOOSE s \in found : TRUE).balance, min_pay |-> {}]
             ELSE [bal |-> latest_bal, min_pay |-> {}]
        ELSE [bal |-> forecast_next(a, prev_mo_bal),
              min_pay |-> {min_pay(a, prev_mo_bal)}]

(***************************************************************************)
(* DebtSummaryTable (debt/utils.py)                                        *)
(***************************************************************************)
\* variant: order_by("-priority")
QualifyingOrders_Descending ==
    LET Q == {a \in DOMAIN creditlines :
                creditlines[a].credit_line > 0 /\ statement_set(a) # {}}
    IN  {s \in [1..Cardinality(Q) -> Q] :
            /\ \A i, j \in 1..Cardinality(Q) : i # j => s[i] # s[j]
            /\ \A i, j \in 1..Cardinality(Q) :
                 i < j => creditlines[s[i]].priority >= creditlines[s[j]].priority}

\* CreditLine.objects.filter(credit_line__gt=0).order_by("priority"),
\* kept when statement_set.exists(): every ordering the database may return
QualifyingOrders ==
    LET Q == {a \in DOMAIN creditlines :
                creditlines[a].credit_line > 0 /\ statement_set(a) # {}}
    IN  {s \in [1..Cardinality(Q) -> Q] :
            /\ \A i, j \in 1..Cardinality(Q) : i # j => s[i] # s[j]
            /\ \A i, j \in 1..Cardinality(Q) :
                 i < j => creditlines[s[i]].priority <= creditlines[s[j]].priority}

\* variant: max(earliest_dates)
EarliestOf_Latest(as) ==
    LET D == {earliest_statement_date(a) : a \in as}
    IN  CHOOSE d \in D : \A e \in D : DateLE(e.year, e.month, d.year, d.month)

\* min(earliest_dates)
EarliestOf(as) ==
    LET D == {earliest_statement_date(a) : a \in as}
    IN  CHOOSE d \in D : \A e \in D : DateLE(d.year, d.month, e.year, e.month)

\* variant: only the month numbers are compared
after_this_month_MonthOnly == month > now.month

\* lines 106-109
after_this_month ==
    year > now.year \/ (month > now.month /\ year = now.year)

\* variant: the cap is compared with > instead of >=
break_loop_OffByOne ==
    IF do_forecasting
    THEN IF rows = <<>> THEN FALSE
         ELSE rows[Len(rows)]["Total"] = 0 \/ Len(rows) > MAX_ROWS
    ELSE after_this_month

\* variant: the historical-only loop also stops in now's own month
break_loop_StopsAtNow ==
    IF do_forecasting
    THEN IF rows = <<>> THEN FALSE
         ELSE rows[Len(rows)]["Total"] = 0 \/ Len(rows) >= MAX_ROWS
    ELSE year > now.year \/ (month >= now.month /\ year = now.year)

\* variant: a zero Total does not stop the loop while an account still has
\* a statement in a later month
break_loop_WaitsForHistory ==
    IF do_forecasting
    THEN IF rows = <<>> THEN FALSE
         ELSE \/ /\ rows[Len(rows)]["Total"] = 0
                 /\ \A a \in SeqToSet(accs) :
                      ~DateLE(year, month,
                              latest_stmnts[a].year, latest_stmnts[a].month)
              \/ Len(rows) >= MAX_ROWS
    ELSE after_this_month

\* variant: the test of the previous Total is forgotten
break_loop_CapOnly ==
    IF do_forecasting
    THEN IF rows = <<>> THEN FALSE ELSE Len(rows) >= MAX_ROWS
    ELSE after_this_month

\* lines 99-104
break_loop ==
    IF do_forecasting
    THEN IF rows = <<>> THEN FALSE
         ELSE rows[Len(rows)]["Total"] = 0 \/ Len(rows) >= MAX_ROWS
    ELSE after_this_month

\* variant: the break after the partial payment is forgotten
RECURSIVE SpendWalk_NoBreak(_, _, _)
SpendWalk_NoBreak(row, budget, i) ==
    IF i > Len(names) THEN row
    ELSE LET n == names[i] IN
         IF row[n] >= budget
         THEN SpendWalk_NoBreak([row EXCEPT ![n] = @ - budget], budget, i + 1)
         ELSE SpendWalk_NoBreak([row EXCEPT ![n] = 0], budget - row[n], i + 1)

\* variant: the budget is not reduced by what a paid-off account took
RECURSIVE SpendWalk_KeepsBudget(_, _, _)
SpendWalk_KeepsBudget(row, budget, i) ==
    IF i > Len(names) THEN row
    ELSE LET n == names[i] IN
         IF row[n] >= budget
         THEN [row EXCEPT ![n] = @ - budget]
         ELSE SpendWalk_KeepsBudget([row EXCEPT ![n] = 0], budget, i + 1)

\* lines 137-143: the walk over self.names from position i
RECURSIVE SpendWalk(_, _, _)
SpendWalk(row, budget, i) ==
    IF i > Len(names) THEN row
    ELSE LET n == names[i] IN
         IF row[n] >= budget
         THEN [row EXCEPT ![n] = @ - budget]
         ELSE SpendWalk([row EXCEPT ![n] = 0], budget - row[n], i + 1)

\* variant: the budget is spent although some account did not forecast
SpendBudget_NoAllGate(row, mp) ==
    IF after_this_month
    THEN LET budget == debt_budget - SumOver(mp, DOMAIN mp)
         IN  IF budget > 0 THEN SpendWalk(row, budget, 1) ELSE row
    ELSE row

\* variant: the budget is spent as soon as one account forecasts
SpendBudget_AnyForecast(row, mp) ==
    IF after_this_month /\ Cardinality(DOMAIN mp) > 0
    THEN LET budget == debt_budget - SumOver(mp, DOMAIN mp)
         IN  IF budget > 0 THEN SpendWalk(row, budget, 1) ELSE row
    ELSE row

\* variant: the budget is spent in past months too
SpendBudget_NoMonthGate(row, mp) ==
    IF Cardinality(DOMAIN mp) = Len(names)
    THEN LET budget == debt_budget - SumOver(mp, DOMAIN mp)
         IN  IF budget > 0 THEN SpendWalk(row, budget, 1) ELSE row
    ELSE row

\* variant: the minimum payments are not taken out of the budget
SpendBudget_IgnoresMinPay(row, mp) ==
    IF after_this_month /\ Cardinality(DOMAIN mp) = Len(names)
    THEN LET budget == debt_budget
         IN  IF budget > 0 THEN SpendWalk(row, budget, 1) ELSE row
    ELSE row

\* lines 132-143: "Spend the debt budget"; mp is the min_pay dict
SpendBudget(row, mp) ==
    IF after_this_month /\ Cardinality(DOMAIN mp) = Len(names)
    THEN LET budget == debt_budget - SumOver(mp, DOMAIN mp)
         IN  IF budget > 0 THEN SpendWalk(row, budget, 1) ELSE row
    ELSE row

\* variant: the Total is summed before the budget is spent
NextRow_TotalBeforeSpend ==
    LET A == SeqToSet(accs)
        prev_bal(a) == IF rows # <<>> THEN rows[Len(rows)][a] ELSE balances[a]
        res == [a \in A |->
                  calc_balance(a, month, year, prev_bal(a),
                               latest_stmnts[a], balances[a])]
        row0 == [a \in A |-> res[a].bal]
        F == {a \in A : res[a].min_pay # {}}
        mp == [a \in F |-> CHOOSE v \in res[a].min_pay : TRUE]
        row1 == SpendBudget(row0, mp)
        total == SumOver(row0, A)
    IN  [k \in A \cup {"Total", "month"} |->
            IF k = "Total" THEN total
            ELSE IF k = "month"
                 THEN [abbr |-> MonthAbbr[month], year |-> year]
                 ELSE row1[k]]

\* variant: every forecast starts from the cached latest balance
NextRow_ChainsCached ==
    LET A == SeqToSet(accs)
        prev_bal(a) == balances[a]
        res == [a \in A |->
                  calc_balance(a, month, year, prev_bal(a),
                               latest_stmnts[a], balances[a])]
        row0 == [a \in A |-> res[a].bal]
        F == {a \in A : res[a].min_pay # {}}
        mp == [a \in F |-> CHOOSE v \in res[a].min_pay : TRUE]
        row1 == SpendBudget(row0, mp)
        total == SumOver(row1, A)
    IN  [k \in A \cup {"Total", "month"} |->
            IF k = "Total" THEN total
            ELSE IF k = "month"
                 THEN [abbr |-> MonthAbbr[month], year |-> year]
                 ELSE row1[k]]

\* lines 116-150: the row appended by calc_next_row
NextRow ==
    LET A == SeqToSet(accs)
        prev_bal(a) == IF rows # <<>> THEN rows[Len(rows)][a] ELSE balances[a]
        res == [a \in A |->
                  calc_balance(a, month, year, prev_bal(a),
                               latest_stmnts[a], balances[a])]
        row0 == [a \in A |-> res[a].bal]
        F == {a \in A : res[a].min_pay # {}}
        mp == [a \in F |-> CHOOSE v \in res[a].min_pay : TRUE]
        row1 == SpendBudget(row0, mp)
        total == SumOver(row1, A)
    IN  [k \in A \cup {"Total", "month"} |->
            IF k = "Total" THEN total
            ELSE IF k = "month"
                 THEN [abbr |-> MonthAbbr[month], year |-> year]
                 ELSE row1[k]]

\* variant: the budget is tested for a non-zero value, "if budget_obj.value"
BudgetWarnings_WarnsOnZero ==
    IF budget_obj.exists /\ budget_obj.value # 0 THEN <<>> ELSE <<NoDebtBudget>>

\* lines 49-53: "if budget_obj:" is true of every Budget row, whatever its value
BudgetWarnings ==
    IF budget_obj.exists THEN <<>> ELSE <<NoDebtBudget>>

\* lines 29-63: __init__ up to the call of calc_rows (set_starting_month included)
Construct ==
    /\ pc = "start"
    /\ \E order \in QualifyingOrders :
        /\ accs' = order
        /\ names' = order
        /\ latest_stmnts' = [a \in SeqToSet(order) |-> latest_statement_date(a)]
        /\ balances' = [a \in SeqToSet(order) |-> balance(a)]
        /\ LET w1 == BudgetWarnings
           IN  IF order = <<>>
               THEN /\ warnings' = w1 \o <<NoStatementData>>
                    /\ month' = now.month
                    /\ year' = now.year
               ELSE /\ warnings' = w1
                    /\ month' = EarliestOf(SeqToSet(order)).month
                    /\ year' = EarliestOf(SeqToSet(order)).year
    /\ debt_budget' = IF budget_obj.exists THEN Abs(budget_obj.value) ELSE 0
    /\ rows' = <<>>
    /\ pc' = "loop"
    /\ UNCHANGED <<db, fmt_rows, call, count, counts,
                   request>>

\* variant: December rolls over to January of the same year
increment_KeepsYear ==
    IF month = 12 THEN [month |-> 1, year |-> year]
    ELSE [month |-> month + 1, year |-> year]

\* lines 92-97: the (month, year) that increment() moves to
increment ==
    IF month = 12 THEN [month |-> 1, year |-> year + 1]
    ELSE [month |-> month + 1, year |-> year]

\* lines 111-114: one iteration of calc_rows (calc_next_row, then increment)
CalcRowsStep ==
    /\ pc = "loop"
    /\ ~break_loop
    /\ rows' = Append(rows, NextRow)
    /\ month' = increment.month
    /\ year' = increment.year
    /\ UNCHANGED <<db, pc, accs, warnings, latest_stmnts, balances, names,
                   debt_budget, fmt_rows, call, count, counts,
                   request>>

\* line 112: the loop condition fails and __init__ returns
CalcRowsExit ==
    /\ pc = "loop"
    /\ break_loop
    /\ pc' = "done"
    /\ UNCHANGED <<db, accs, warnings, latest_stmnts, balances, names,
                   debt_budget, month, year, rows, fmt_rows, call, count,
                   counts,
                   request>>

\* Decimal rounding of format(v, ".0f"): to the nearest whole currency unit,
\* ties to the even one
RoundHalfEven(v) ==
    LET q == v \div UnitsPerDollar
        r == v % UnitsPerDollar
    IN  IF 2 * r < UnitsPerDollar THEN q
        ELSE IF 2 * r > UnitsPerDollar THEN q + 1
        ELSE IF q % 2 = 0 THEN q ELSE q + 1

\* the digit groups the "," option separates: 1234 is written "1,234"
RECURSIVE Groups(_)
Groups(n) == IF n < 1000 THEN <<n>> ELSE Append(Groups(n \div 1000), n % 1000)

\* line 86: format(v, ",.0f") of a number: sign and comma-separated groups
format_0f(v) == [neg |-> v < 0, groups |-> Groups(Abs(RoundHalfEven(v)))]

\* lines 81-89: a new list of new dicts; the month label raises ValueError
\* and is kept as it is
FormatRows(rs) ==
    [i \in 1..Len(rs) |->
        [k \in DOMAIN rs[i] |->
            IF k = "month" THEN rs[i][k] ELSE format_0f(rs[i][k])]]

\* variant: the rows are rounded where they stand before they are formatted
FormattedRows_RoundsInPlace ==
    /\ pc = "done"
    /\ rows' = [i \in 1..Len(rows) |->
                  [k \in DOMAIN rows[i] |->
                      IF k = "month" THEN rows[i][k]
                      ELSE Dollars(RoundHalfEven(rows[i][k]))]]
    /\ fmt_rows' = FormatRows(rows')
    /\ UNCHANGED <<db, pc, accs, warnings, latest_stmnts, balances, names,
                   debt_budget, month, year, call, count, counts,
                   request>>

\* lines 79-90: a call of formatted_rows() on the constructed table
FormattedRows ==
    /\ pc = "done"
    /\ fmt_rows' = FormatRows(rows)
    /\ UNCHANGED <<db, pc, accs, warnings, latest_stmnts, balances, names,
                   debt_budget, month, year, rows, call, count, counts,
                   request>>

(***************************************************************************)
(* Database snapshots and requests the engine is run on                    *)
(***************************************************************************)
AccountNames == {"A", "B"}

ProfilesA ==
    { [interest_rate |-> 0, min_pay_pct |-> 0, min_pay_dlr |-> 0,
       credit_line |-> Dollars(1000)],
      [interest_rate |-> 0, min_pay_pct |-> 0, min_pay_dlr |-> Dollars(30),
       credit_line |-> Dollars(1000)] }

ProfilesB ==
    { [interest_rate |-> 0, min_pay_pct |-> 0, min_pay_dlr |-> 0,
       credit_line |-> Dollars(1000)],
      [interest_rate |-> 1200, min_pay_pct |-> 100, min_pay_dlr |-> 0,
       credit_line |-> Dollars(1000)],
      [interest_rate |-> 0, min_pay_pct |-> 0, min_pay_dlr |-> 0,
       credit_line |-> 0] }

Priorities == [A |-> {1, 3}, B |-> {2}]

NowDates == {[year |-> 2019, month |-> 1]}

\* how many years before the recent statements the old statement lies
OldYears == 10

Nov18 == [year |-> 2018, month |-> 11]
Dec18 == [year |-> 2018, month |-> 12]
Jan19 == [year |-> 2019, month |-> 1]
Feb19 == [year |-> 2019, month |-> 2]
OldDate == [year |-> 2018 - OldYears, month |-> 12]

ShapesA == {{}, {Dec18}, {Jan19}, {Dec18, Jan19}, {OldDate}}
ShapesB == {{}, {Nov18}, {Feb19}, {Nov18, Feb19}}

BalValsA == {Dollars(100)}
\* -20.50, 0.00 and 50.00
BalValsB == {Dollars(-20) - 50, 0, Dollars(50)}

Budgets == {[exists |-> FALSE, value |-> 0], [exists |-> TRUE, value |-> 0],
            [exists |-> TRUE, value |-> Dollars(30) + 50],
            [exists |-> TRUE, value |-> Dollars(-120)]}

\* the statement sets of account a: one statement on each date of a shape
Histories(a, shapes, vals) ==
    UNION { { {[account |-> a, year |-> d.year, month |-> d.month,
                balance |-> f[d]] : d \in S} : f \in [S -> vals] }
            : S \in shapes }

\* no statement view has handled a request
NoRequest == [view |-> "none", user |-> "none"]

\* no statement bulk upload has been processed
NoCounts == [unknown |-> 0, existing |-> 0, added |-> 0]

\* no CreditLine method has been called directly
NoCall == [fn |-> "none", account |-> "A", month |-> 1, year |-> 0,
           bal |-> 0, ret |-> 0]

Init ==
    /\ \E pa \in ProfilesA, pb \in ProfilesB,
          prA \in Priorities.A, prB \in Priorities.B :
         creditlines =
            [a \in AccountNames |->
                IF a = "A"
                THEN [priority |-> prA, interest_rate |-> pa.interest_rate,
                      min_pay_pct |-> pa.min_pay_pct,
                      min_pay_dlr |-> pa.min_pay_dlr,
                      credit_line |-> pa.credit_line]
                ELSE [priority |-> prB, interest_rate |-> pb.interest_rate,
                      min_pay_pct |-> pb.min_pay_pct,
                      min_pay_dlr |-> pb.min_pay_dlr,
                      credit_line |-> pb.credit_line]]
    /\ \E hA \in Histories("A", ShapesA, BalValsA),
          hB \in Histories("B", ShapesB, BalValsB) :
         statements = hA \cup hB
    /\ budget_obj \in Budgets
    /\ now \in NowDates
    /\ do_forecasting \in BOOLEAN
    /\ pc = "start"
    /\ accs = <<>>
    /\ warnings = <<>>
    /\ latest_stmnts = <<>>
    /\ balances = <<>>
    /\ names = <<>>
    /\ debt_budget = 0
    /\ month = now.month
    /\ year = now.year
    /\ rows = <<>>
    /\ fmt_rows = <<>>
    /\ call = NoCall
    /\ count = 0
    /\ counts = NoCounts
    /\ request = NoRequest

Next == Construct \/ CalcRowsStep \/ CalcRowsExit \/ FormattedRows

Spec == Init /\ [][Next]_vars

\* calc_rows runs to completion once __init__ is called: no step of the loop
\* is postponed forever.  Termination is checked on the snapshots in which A
\* has the higher priority, B has a credit line and the budget is unset or 120.
TermInit ==
    /\ Init
    /\ creditlines["A"].priority = 1
    /\ creditlines["B"].credit_line > 0
    /\ budget_obj.exists => budget_obj.value = Dollars(-120)

FairSpec == TermInit /\ [][Next]_vars /\ WF_vars(Next)

(***************************************************************************)
(* Direct calls of the CreditLine methods, as the unit tests make them: a  *)
(* credit line with one statement (November 2018, 400.00) and a method     *)
(* call with an explicit balance or with the default bal=None.             *)
(***************************************************************************)
MethodProfiles ==
    { [interest_rate |-> 12, min_pay_pct |-> 10, min_pay_dlr |-> Dollars(30)],
      [interest_rate |-> 12, min_pay_pct |-> 0, min_pay_dlr |-> Dollars(30)],
      [interest_rate |-> 24, min_pay_pct |-> 0, min_pay_dlr |-> Dollars(30)],
      [interest_rate |-> 0, min_pay_pct |-> 0, min_pay_dlr |-> 0] }

MethodBalances ==
    {Dollars(-20), 0, Dollars(15), Dollars(100), Dollars(400), Dollars(500)}

MethodDates == {[year |-> 2017, month |-> 12], [year |-> 2018, month |-> 10],
                Nov18, Dec18, Jan19}

\* the Decimal products of the call are whole numbers of cents
ExactCall(a, bal) ==
    /\ (bal * creditlines[a].interest_rate) % 1200 = 0
    /\ (bal * creditlines[a].min_pay_pct) % 100 = 0

MethodInit ==
    /\ \E pa \in MethodProfiles, pb \in MethodProfiles :
         creditlines =
            [a \in AccountNames |->
                LET p == IF a = "A" THEN pa ELSE pb
                IN  [priority |-> 1, interest_rate |-> p.interest_rate,
                     min_pay_pct |-> p.min_pay_pct,
                     min_pay_dlr |-> p.min_pay_dlr,
                     credit_line |-> Dollars(1000)]]
    /\ statements =
         {[account |-> a, year |-> 2018, month |-> 11, balance |-> Dollars(400)]
            : a \in AccountNames}
    /\ budget_obj = [exists |-> FALSE, value |-> 0]
    /\ now \in NowDates
    /\ do_forecasting = FALSE
    /\ pc = "methods"
    /\ accs = <<>>
    /\ warnings = <<>>
    /\ latest_stmnts = <<>>
    /\ balances = <<>>
    /\ names = <<>>
    /\ debt_budget = 0
    /\ month = now.month
    /\ year = now.year
    /\ rows = <<>>
    /\ fmt_rows = <<>>
    /\ call = NoCall
    /\ count = 0
    /\ counts = NoCounts
    /\ request = NoRequest

\* models.py lines 81-84: obj.min_pay(bal) or obj.min_pay()
CallMinPay ==
    /\ pc = "methods"
    /\ \E a \in AccountNames, b \in MethodBalances, dflt \in BOOLEAN :
         LET bal == IF dflt THEN balance(a) ELSE b
         IN  /\ ExactCall(a, bal)
             /\ call' = [fn |-> "min_pay", account |-> a, month |-> 1,
                         year |-> 0, bal |-> bal, ret |-> min_pay(a, bal)]
    /\ UNCHANGED <<db, pc, accs, warnings, latest_stmnts, balances, names,
                   debt_budget, month, year, rows, fmt_rows, count, counts,
                   request>>

\* models.py lines 86-92: obj.forecast_next(bal) or obj.forecast_next()
CallForecastNext ==
    /\ pc = "methods"
    /\ \E a \in AccountNames, b \in MethodBalances, dflt \in BOOLEAN :
         LET bal == IF dflt THEN balance(a) ELSE b
         IN  /\ ExactCall(a, bal)
             /\ call' = [fn |-> "forecast_next", account |-> a, month |-> 1,
                         year |-> 0, bal |-> bal,
                         ret |-> forecast_next(a, bal)]
    /\ UNCHANGED <<db, pc, accs, warnings, latest_stmnts, balances, names,
                   debt_budget, month, year, rows, fmt_rows, count, counts,
                   request>>

\* models.py lines 94-146: obj.calc_balance(month, year, prev_mo_bal) with
\* latest_stmnt_date and latest_bal left to their default None
CallCalcBalance ==
    /\ pc = "methods"
    /\ \E a \in AccountNames, d \in MethodDates, prev \in MethodBalances :
         /\ ExactCall(a, prev)
         /\ call' = [fn |-> "calc_balance", account |-> a, month |-> d.month,
                     year |-> d.year, bal |-> prev,
                     ret |-> calc_balance(a, d.month, d.year, prev,
                                          latest_statement_date(a), 0)]
    /\ UNCHANGED <<db, pc, accs, warnings, latest_stmnts, balances, names,
                   debt_budget, month, year, rows, fmt_rows, count, counts,
                   request>>

MethodNext == CallMinPay \/ CallForecastNext \/ CallCalcBalance

MethodSpec == MethodInit /\ [][MethodNext]_vars

(***************************************************************************)
(* The function debt_summary(request) of simplefi/debt/utils.py, the       *)
(* earlier form of the engine, with the CreditLine arithmetic of           *)
(* simplefi/debt/models.py.                                                *)
(***************************************************************************)
\* simplefi/debt/models.py lines 64-67: no cap at the balance
summary_min_pay(a, bal) ==
    Max(creditlines[a].min_pay_dlr,
        (creditlines[a].min_pay_pct * bal) \div 100)

\* simplefi/debt/models.py lines 69-73
summary_forecast_next(a, bal) ==
    Max((bal * (1200 + creditlines[a].interest_rate)) \div 1200
            - summary_min_pay(a, bal),
        0)

\* line 28: every credit line with a positive credit_line, with or without
\* statements
SummaryAccs == {a \in DOMAIN creditlines : creditlines[a].credit_line > 0}

\* line 75: accs.order_by("priority"), every ordering the database may return
SummaryOrders ==
    LET Q == SummaryAccs
    IN  {s \in [1..Cardinality(Q) -> Q] :
            /\ \A i, j \in 1..Cardinality(Q) : i # j => s[i] # s[j]
            /\ \A i, j \in 1..Cardinality(Q) :
                 i < j => creditlines[s[i]].priority <= creditlines[s[j]].priority}

\* line 58: the month is strictly before now's month
SummaryBeforeNow ==
    year < now.year \/ (month < now.month /\ year = now.year)

SummaryFound(a) ==
    {s \in statement_set(a) : s.year = year /\ s.month = month}

\* lines 59-60: first() is None for an account without statements and
\* None.balance raises AttributeError
SummaryRaises ==
    \E a \in SummaryAccs :
        SummaryFound(a) = {} /\ SummaryBeforeNow /\ statement_set(a) = {}

\* lines 75-81: the walk over the accounts in priority order
RECURSIVE SummaryWalk(_, _, _, _)
SummaryWalk(row, budget, order, i) ==
    IF i > Len(order) THEN row
    ELSE LET n == order[i] IN
         IF row[n] >= budget
         THEN [row EXCEPT ![n] = @ - budget]
         ELSE SummaryWalk([row EXCEPT ![n] = 0], budget - row[n], order, i + 1)

\* lines 50-88: the row of one pass of the loop, for a walk order
SummaryRow(order) ==
    LET A == SummaryAccs
        F == {a \in A : SummaryFound(a) = {} /\ ~SummaryBeforeNow}
        prev_bal(a) == IF rows # <<>> THEN rows[Len(rows)][a] ELSE balance(a)
        row0 == [a \in A |->
                   IF SummaryFound(a) # {}
                   THEN (CHOOSE s \in SummaryFound(a) : TRUE).balance
                   ELSE IF SummaryBeforeNow THEN FirstStatement(a).balance
                   ELSE summary_forecast_next(a, prev_bal(a))]
        mp == [a \in F |-> summary_min_pay(a, prev_bal(a))]
        budget == Abs(budget_obj.value) - SumOver(mp, F)
        row1 == IF budget_obj.exists /\ F = A /\ budget > 0
                THEN SummaryWalk(row0, budget, order, 1)
                ELSE row0
    IN  [k \in A \cup {"Total", "month"} |->
            IF k = "Total" THEN SumOver(row1, A)
            ELSE IF k = "month"
                 THEN [abbr |-> MonthAbbr[month], year |-> year]
                 ELSE row1[k]]

\* lines 28-47: up to the start of the loop; [] is returned when no account
\* has a statement
DebtSummaryCall ==
    /\ pc = "summary"
    /\ LET E == {a \in SummaryAccs : statement_set(a) # {}}
       IN  IF E = {}
           THEN /\ pc' = "returned"
                /\ UNCHANGED <<month, year>>
           ELSE /\ pc' = "summary_loop"
                /\ month' = EarliestOf(E).month
                /\ year' = EarliestOf(E).year
    /\ rows' = <<>>
    /\ count' = 0
    /\ UNCHANGED <<db, accs, warnings, latest_stmnts, balances, names,
                   debt_budget, fmt_rows, call, counts,
                   request>>

\* lines 48-107: one pass of the loop: the row, then either the exit with
\* the rows formatted where they stand, or the increment
DebtSummaryPass ==
    /\ pc = "summary_loop"
    /\ IF SummaryRaises
       THEN /\ pc' = "raised"
            /\ UNCHANGED <<warnings, rows, month, year, count>>
       ELSE \E order \in SummaryOrders :
            LET row == SummaryRow(order)
            IN  /\ warnings' = IF budget_obj.exists THEN warnings
                               ELSE Append(warnings, NoDebtBudget)
                /\ IF row["Total"] = 0 \/ count >= MAX_ROWS
                   THEN /\ rows' = FormatRows(Append(rows, row))
                        /\ pc' = "returned"
                        /\ UNCHANGED <<month, year, count>>
                   ELSE /\ rows' = Append(rows, row)
                        /\ month' = increment.month
                        /\ year' = increment.year
                        /\ count' = count + 1
                        /\ pc' = pc
    /\ UNCHANGED <<db, accs, latest_stmnts, balances, names, debt_budget,
                   fmt_rows, call, counts,
                   request>>

SummaryInit ==
    /\ \E pa \in ProfilesA, pb \in ProfilesB :
         creditlines =
            [a \in AccountNames |->
                LET p == IF a = "A" THEN pa ELSE pb
                IN  [priority |-> IF a = "A" THEN 1 ELSE 2,
                     interest_rate |-> p.interest_rate,
                     min_pay_pct |-> p.min_pay_pct,
                     min_pay_dlr |-> p.min_pay_dlr,
                     credit_line |-> p.credit_line]]
    /\ \E hA \in Histories("A", {{}, {Dec18}, {Jan19}}, BalValsA),
          hB \in Histories("B", {{}, {Nov18}}, {0, Dollars(50)}) :
         statements = hA \cup hB
    /\ budget_obj \in {[exists |-> FALSE, value |-> 0],
                       [exists |-> TRUE, value |-> Dollars(-120)]}
    /\ now \in NowDates
    /\ do_forecasting = TRUE
    /\ pc = "summary"
    /\ accs = <<>>
    /\ warnings = <<>>
    /\ latest_stmnts = <<>>
    /\ balances = <<>>
    /\ names = <<>>
    /\ debt_budget = 0
    /\ month = now.month
    /\ year = now.year
    /\ rows = <<>>
    /\ fmt_rows = <<>>
    /\ call = NoCall
    /\ count = 0
    /\ counts = NoCounts
    /\ request = NoRequest

SummaryNext == DebtSummaryCall \/ DebtSummaryPass

SummarySpec == SummaryInit /\ [][SummaryNext]_vars

(***************************************************************************)
(* The statement views of debt/views.py over the Statement and CreditLine  *)
(* tables.  A credit line is identified by (user, name), which is unique   *)
(* (models.py line 48); a Statement row is [user, account, year, month,    *)
(* balance] and the database keeps (user, account, year, month) unique     *)
(* (models.py line 157).                                                   *)
(***************************************************************************)
ViewUsers == {"u1", "u2"}

\* the largest number of data rows of an uploaded CSV
MaxCsvRows == 2

\* the rows an uploaded CSV is made of: Account, Date and Balance; a CSV
\* may hold the same row more than once
CsvRows ==
    { [Account |-> "Checking", Balance |-> Dollars(2000),
       Date |-> [year |-> 2018, month |-> 11, day |-> 1]],
      [Account |-> "Checking", Balance |-> Dollars(3000),
       Date |-> [year |-> 2018, month |-> 12, day |-> 1]],
      [Account |-> "Unknown Account", Balance |-> Dollars(3000),
       Date |-> [year |-> 2018, month |-> 12, day |-> 1]] }

Csvs == UNION {[1..n -> CsvRows] : n \in 1..MaxCsvRows}

\* what is posted in the statement form
FormDates == {Nov18, Dec18}
FormBalances == {Dollars(1500)}

\* the unique constraint of Statement: the key is taken by a row of stmts
KeyTaken(stmts, u, acc, yr, mo) ==
    \E s \in stmts :
        s.user = u /\ s.account = acc /\ s.year = yr /\ s.month = mo

\* views.py lines 212-217 with the mixins of lines 45-83: the posted form is
\* validated against every CreditLine (the user's own credit lines are set
\* as the choices only when the form is displayed), the user is assigned,
\* and the row is saved unless the unique constraint rejects it
StatementCreate ==
    /\ pc = "views"
    /\ \E u \in ViewUsers, acc \in DOMAIN creditlines, d \in FormDates,
          bal \in FormBalances :
         /\ request' = [view |-> "StatementCreate", user |-> u]
         /\ statements' =
              IF KeyTaken(statements, u, acc, d.year, d.month) THEN statements
              ELSE statements \cup {[user |-> u, account |-> acc,
                                     year |-> d.year, month |-> d.month,
                                     balance |-> bal]}
    /\ UNCHANGED <<creditlines, budget_obj, now, do_forecasting, pc, accs,
                   warnings, latest_stmnts, balances, names, debt_budget,
                   month, year, rows, fmt_rows, call, count, counts>>

\* lines 220-225: one of the user's own statements is edited
StatementUpdate ==
    /\ pc = "views"
    /\ \E u \in ViewUsers, acc \in DOMAIN creditlines, d \in FormDates,
          bal \in FormBalances :
        \E s \in {t \in statements : t.user = u} :
         /\ request' = [view |-> "StatementUpdate", user |-> u]
         /\ statements' =
              IF KeyTaken(statements \ {s}, u, acc, d.year, d.month)
              THEN statements
              ELSE (statements \ {s})
                     \cup {[user |-> u, account |-> acc, year |-> d.year,
                            month |-> d.month, balance |-> bal]}
    /\ UNCHANGED <<creditlines, budget_obj, now, do_forecasting, pc, accs,
                   warnings, latest_stmnts, balances, names, debt_budget,
                   month, year, rows, fmt_rows, call, count, counts>>

\* lines 228-231: one of the user's own statements is deleted
StatementDelete ==
    /\ pc = "views"
    /\ \E u \in ViewUsers : \E s \in {t \in statements : t.user = u} :
         /\ request' = [view |-> "StatementDelete", user |-> u]
         /\ statements' = statements \ {s}
    /\ UNCHANGED <<creditlines, budget_obj, now, do_forecasting, pc, accs,
                   warnings, latest_stmnts, balances, names, debt_budget,
                   month, year, rows, fmt_rows, call, count, counts>>

\* lines 329-332: all statements of the user are deleted
StatementBulkDelete ==
    /\ pc = "views"
    /\ \E u \in ViewUsers :
         /\ request' = [view |-> "StatementBulkDelete", user |-> u]
         /\ statements' = {s \in statements : s.user # u}
    /\ UNCHANGED <<creditlines, budget_obj, now, do_forecasting, pc, accs,
                   warnings, latest_stmnts, balances, names, debt_budget,
                   month, year, rows, fmt_rows, call, count, counts>>

CsvNames(csv) == {csv[i].Account : i \in 1..Len(csv)}

\* lines 279-287: the names for which get_or_create makes a new credit line
CreatedLines(u, csv) ==
    {<<u, n>> : n \in {m \in CsvNames(csv) : <<u, m>> \notin DOMAIN creditlines}}

\* lines 280-282: the CreditLine table once every name went through
\* get_or_create
AfterGetOrCreate(u, csv) ==
    [k \in DOMAIN creditlines \cup CreatedLines(u, csv) |->
        IF k \in DOMAIN creditlines THEN creditlines[k]
        ELSE [user |-> k[1], name |-> k[2]]]

\* variant: the credit line made for an unknown name is not deleted again
ValidatedCreditLines_NoDelete(u, csv) == AfterGetOrCreate(u, csv)

\* lines 279-287: the CreditLine table after the validation of the accounts:
\* a created credit line is deleted at once
ValidatedCreditLines(u, csv) ==
    [k \in DOMAIN AfterGetOrCreate(u, csv) \ CreatedLines(u, csv) |->
        AfterGetOrCreate(u, csv)[k]]

\* lines 286-287: the names kept in acc_objs
acc_objs(u, csv) == {n \in CsvNames(csv) : <<u, n>> \in DOMAIN creditlines}

\* variant: update_or_create, the balance of an existing statement is replaced
RECURSIVE ProcessRows_Overwrites(_, _, _, _, _)
ProcessRows_Overwrites(u, csv, i, stmts, cnt) ==
    IF i > Len(csv) THEN [statements |-> stmts, counts |-> cnt]
    ELSE LET row == csv[i]
             acc == <<u, row.Account>>
             yr == row.Date.year
             mo == row.Date.month
             new == [user |-> u, account |-> acc, year |-> yr, month |-> mo,
                     balance |-> row.Balance]
         IN  IF row.Account \notin acc_objs(u, csv)
             THEN ProcessRows_Overwrites(u, csv, i + 1, stmts,
                                         [cnt EXCEPT !.unknown = @ + 1])
             ELSE IF KeyTaken(stmts, u, acc, yr, mo)
             THEN ProcessRows_Overwrites(
                      u, csv, i + 1,
                      {s \in stmts : ~KeyTaken({s}, u, acc, yr, mo)} \cup {new},
                      [cnt EXCEPT !.existing = @ + 1])
             ELSE ProcessRows_Overwrites(u, csv, i + 1, stmts \cup {new},
                                         [cnt EXCEPT !.added = @ + 1])

\* lines 289-314: the loop over the rows from row i on; Year and Month are
\* taken from the parsed Date; the fields of cnt stand for "Unknown
\* Accounts", "Existing Statements Not Overwritten", "New Statements Added"
RECURSIVE ProcessRows(_, _, _, _, _)
ProcessRows(u, csv, i, stmts, cnt) ==
    IF i > Len(csv) THEN [statements |-> stmts, counts |-> cnt]
    ELSE LET row == csv[i]
             acc == <<u, row.Account>>
             yr == row.Date.year
             mo == row.Date.month
             new == [user |-> u, account |-> acc, year |-> yr, month |-> mo,
                     balance |-> row.Balance]
         IN  IF row.Account \notin acc_objs(u, csv)
             THEN ProcessRows(u, csv, i + 1, stmts,
                              [cnt EXCEPT !.unknown = @ + 1])
             ELSE IF KeyTaken(stmts, u, acc, yr, mo)
             THEN ProcessRows(u, csv, i + 1, stmts,
                              [cnt EXCEPT !.existing = @ + 1])
             ELSE ProcessRows(u, csv, i + 1, stmts \cup {new},
                              [cnt EXCEPT !.added = @ + 1])

\* lines 259-322: form_valid of the bulk upload for a CSV with the expected
\* columns
StatementBulkUpdate ==
    /\ pc = "views"
    /\ \E u \in ViewUsers, csv \in Csvs :
         LET cl == ValidatedCreditLines(u, csv)
             kept == {s \in statements : s.account \in DOMAIN cl}
             res == ProcessRows(u, csv, 1, kept, NoCounts)
         IN  /\ request' = [view |-> "StatementBulkUpdate", user |-> u,
                            csv |-> csv]
             /\ creditlines' = cl
             /\ statements' = res.statements
             /\ counts' = res.counts
    /\ UNCHANGED <<budget_obj, now, do_forecasting, pc, accs, warnings,
                   latest_stmnts, balances, names, debt_budget, month, year,
                   rows, fmt_rows, call, count>>

\* one user with the credit line "Checking", another user without credit
\* lines, and no statement yet
ViewInit ==
    /\ creditlines = [k \in {<<"u1", "Checking">>} |->
                        [user |-> k[1], name |-> k[2]]]
    /\ statements = {}
    /\ budget_obj = [exists |-> FALSE, value |-> 0]
    /\ now \in NowDates
    /\ do_forecasting = FALSE
    /\ pc = "views"
    /\ accs = <<>>
    /\ warnings = <<>>
    /\ latest_stmnts = <<>>
    /\ balances = <<>>
    /\ names = <<>>
    /\ debt_budget = 0
    /\ month = now.month
    /\ year = now.year
    /\ rows = <<>>
    /\ fmt_rows = <<>>
    /\ call = NoCall
    /\ count = 0
    /\ counts = NoCounts
    /\ request = NoRequest

ViewNext ==
    \/ StatementCreate
    \/ StatementUpdate
    \/ StatementDelete
    \/ StatementBulkUpdate
    \/ StatementBulkDelete

ViewSpec == ViewInit /\ [][ViewNext]_vars

(***************************************************************************)
(* Vocabulary of the properties.  Everything below is computed from the    *)
(* database snapshot and from the produced rows alone.                     *)
(***************************************************************************)
\* Rows are only ever appended (RowsAppendOnly), so every produced row is the
\* newest row of the state that follows its production: the properties below
\* speak about the newest row of every reachable state.
RowIdx == IF rows = <<>> THEN {} ELSE {Len(rows)}

RowsAppendOnly ==
    [][Len(rows') >= Len(rows) /\ SubSeq(rows', 1, Len(rows)) = rows]_vars
Accts == SeqToSet(accs)

\* the (year, month) a row is labelled with
RowMonth(i) == CHOOSE m \in 1..12 : MonthAbbr[m] = rows[i]["month"].abbr
RowYear(i) == rows[i]["month"].year
MonthKey(y, m) == 12 * y + m
RowKey(i) == MonthKey(RowYear(i), RowMonth(i))

StmtAt(a, i) ==
    {s \in statements :
        s.account = a /\ s.year = RowYear(i) /\ s.month = RowMonth(i)}

LatestKey(a) ==
    CHOOSE k \in {MonthKey(s.year, s.month) : s \in statement_set(a)} :
        \A s \in statement_set(a) : MonthKey(s.year, s.month) <= k

\* account a is past its latest statement in row i (the forecast regime)
Forecasts(a, i) == RowKey(i) > LatestKey(a)
AllForecast(i) == \A a \in Accts : Forecasts(a, i)
AfterNow(i) == RowKey(i) > MonthKey(now.year, now.month)

BudgetAbs ==
    IF budget_obj.exists
    THEN (IF budget_obj.value < 0 THEN -budget_obj.value ELSE budget_obj.value)
    ELSE 0

\* minimum payment and min-payment-only forecast from a previous balance
ExpMinPay(a, prev) ==
    LET c == creditlines[a]
        pctpart == (c.min_pay_pct * prev) \div 100
        floored == IF c.min_pay_dlr >= pctpart THEN c.min_pay_dlr ELSE pctpart
    IN  IF floored <= prev THEN floored ELSE prev

ExpForecast(a, prev) ==
    LET v == prev + (prev * creditlines[a].interest_rate) \div 1200
               - ExpMinPay(a, prev)
    IN  IF v < 0 THEN 0 ELSE v

\* for a row i >= 2: forecast balance, minimum payment, and what is left
\* of the budget after the minimum payments
Fc(a, i) == ExpForecast(a, rows[i - 1][a])
Mp(a, i) == ExpMinPay(a, rows[i - 1][a])
SumMp(i) == SumOver([a \in Accts |-> Mp(a, i)], Accts)
Available(i) == BudgetAbs - SumMp(i)

\* what is left of Available when the walk reaches position j of the
\* priority order
Remaining(i, j) ==
    Available(i) - SumOver([k \in 1..(j - 1) |-> Fc(accs[k], i)], 1..(j - 1))

\* row i is the greedy allocation of Available(i) over the forecast balances
Applied(i) ==
    \A j \in 1..Len(accs) :
        LET r == Remaining(i, j)
            f == Fc(accs[j], i)
        IN  rows[i][accs[j]] =
                IF f <= r THEN 0 ELSE IF r > 0 THEN f - r ELSE f

MinPayOnly(i) == \A a \in Accts : rows[i][a] = Fc(a, i)

\* every division the forecast performs is exact on the modelled amounts
ExactArithmetic ==
    \A i \in RowIdx : \A a \in Accts :
        /\ (rows[i][a] * creditlines[a].interest_rate) % 1200 = 0
        /\ (rows[i][a] * creditlines[a].min_pay_pct) % 100 = 0

(***************************************************************************)
(* C1  Historical fidelity: in every produced row, an account that has a   *)
(* Statement for the row's (year, month) shows exactly that statement's    *)
(* balance, and calc_balance returns (statement.balance, None) for it      *)
(* whatever previous balance is passed in.                                 *)
(***************************************************************************)
C1_HistoricalFidelity ==
    pc # "start" =>
        /\ \A i \in RowIdx : \A a \in Accts : \A s \in StmtAt(a, i) :
               rows[i][a] = s.balance
        /\ \A a \in Accts : \A s \in statement_set(a) :
             \A prev \in {Dollars(-20), 0, Dollars(400)} :
               calc_balance(a, s.month, s.year, prev,
                            latest_stmnts[a], balances[a])
                 = [bal |-> s.balance, min_pay |-> {}]

\* a month after now in which one account has a statement while another
\* forecasts a positive balance and budget is left over
C1_Witness ==
    \E i \in RowIdx : \E a, b \in Accts :
        /\ i >= 2 /\ AfterNow(i)
        /\ StmtAt(a, i) # {} /\ rows[i][a] > 0
        /\ Forecasts(b, i) /\ Fc(b, i) > 0
        /\ BudgetAbs - Mp(b, i) > 0

(***************************************************************************)
(* C2  In forecast mode the loop stops exactly when the previous row's     *)
(* Total is 0 or 120 rows have been produced, never before the first row:  *)
(* between 1 and 120 rows are produced.                                    *)
(***************************************************************************)
C2_ForecastStop ==
    /\ [](do_forecasting /\ pc = "done"
            => Len(rows) >= 1 /\ Len(rows) <= MAX_ROWS)
    /\ [][do_forecasting /\ pc = "loop" =>
            /\ pc' = "done" <=>
                 (rows # <<>> /\ (rows[Len(rows)]["Total"] = 0
                                  \/ Len(rows) >= MAX_ROWS))
            /\ pc' = "loop" => Len(rows') = Len(rows) + 1]_vars

\* a forecast that is cut off by the cap with debt left
C2_Witness ==
    /\ do_forecasting /\ pc = "done"
    /\ Len(rows) = MAX_ROWS /\ rows[Len(rows)]["Total"] # 0

(***************************************************************************)
(* C3  The engine terminates in either mode; in forecast mode it returns   *)
(* at most 120 rows, in historical-only mode it returns one row per month  *)
(* from the start month through now, which may be more than 120.           *)
(***************************************************************************)
StartKey ==
    IF Accts = {} THEN MonthKey(now.year, now.month)
    ELSE CHOOSE k \in {MonthKey(s.year, s.month) :
                          s \in {t \in statements : t.account \in Accts}} :
            \A s \in {t \in statements : t.account \in Accts} :
                k <= MonthKey(s.year, s.month)

HistoryRows ==
    IF MonthKey(now.year, now.month) >= StartKey
    THEN MonthKey(now.year, now.month) - StartKey + 1 ELSE 0

C3_Terminates ==
    /\ <>(pc = "done")
    /\ [](do_forecasting => Len(rows) <= MAX_ROWS)
    /\ [](~do_forecasting /\ pc # "start" => Len(rows) <= HistoryRows)
    /\ [](~do_forecasting /\ pc = "done" => Len(rows) = HistoryRows)

\* the claim as stated: never more than 120 rows, in either mode
C3_AtMost120Rows == Len(rows) <= MAX_ROWS

C3_Witness == ~do_forecasting /\ pc = "done" /\ Len(rows) > MAX_ROWS

(***************************************************************************)
(* C4  Waterfall allocation is greedy in priority order: in a month where  *)
(* it applies with available > 0 the accounts are paid in priority order,  *)
(* each fully until the budget runs out; at most one account is partially  *)
(* paid, those before it are 0 and those after it keep their forecast.     *)
(***************************************************************************)
WaterfallMonth(i) == i >= 2 /\ Accts # {} /\ AllForecast(i) /\ AfterNow(i)

PartiallyPaid(i) == {a \in Accts : 0 < rows[i][a] /\ rows[i][a] < Fc(a, i)}

C4_GreedyByPriority ==
    \A i \in RowIdx :
        WaterfallMonth(i) /\ Available(i) > 0 =>
            /\ Applied(i)
            /\ Cardinality(PartiallyPaid(i)) <= 1
            /\ \A j, k \in 1..Len(accs) :
                 /\ creditlines[accs[j]].priority < creditlines[accs[k]].priority
                      => j < k
                 /\ j < k /\ accs[k] \in PartiallyPaid(i)
                      => rows[i][accs[j]] = 0
                 /\ j < k /\ rows[i][accs[j]] > 0
                      => rows[i][accs[k]] = Fc(accs[k], i)

\* the first account is paid off and the second one partially
C4_Witness ==
    \E i \in RowIdx :
        /\ WaterfallMonth(i) /\ Available(i) > 0 /\ Len(accs) = 2
        /\ Fc(accs[1], i) > 0 /\ rows[i][accs[1]] = 0
        /\ accs[2] \in PartiallyPaid(i)

(***************************************************************************)
(* C5  Waterfall example: A (priority 1, balance 100), B (priority 2,      *)
(* balance 50), zero interest and zero minimum payment, debt budget 120:   *)
(* the row zeroes A first and then reduces B by the remainder (A = 0,      *)
(* B = 30).                                                                *)
(***************************************************************************)
ZeroRule(a) ==
    /\ creditlines[a].interest_rate = 0
    /\ creditlines[a].min_pay_pct = 0
    /\ creditlines[a].min_pay_dlr = 0

C5_Example(i) ==
    /\ WaterfallMonth(i)
    /\ Accts = {"A", "B"}
    /\ creditlines["A"].priority = 1 /\ creditlines["B"].priority = 2
    /\ ZeroRule("A") /\ ZeroRule("B")
    /\ rows[i - 1]["A"] = Dollars(100) /\ rows[i - 1]["B"] = Dollars(50)
    /\ BudgetAbs = Dollars(120)

C5_ZeroesAThenReducesB ==
    \A i \in RowIdx :
        C5_Example(i) => rows[i]["A"] = 0 /\ rows[i]["B"] = Dollars(30)

\* the claim as stated: B is zeroed first, A is reduced by the remainder
C5_ZeroesBThenReducesA ==
    \A i \in RowIdx :
        C5_Example(i) => rows[i]["B"] = 0 /\ rows[i]["A"] = Dollars(30)

C5_Witness == \E i \in RowIdx : C5_Example(i)

(***************************************************************************)
(* C6  The waterfall allocation is applied in every month strictly after   *)
(* now's month in which every account forecasts and available > 0; in a    *)
(* month on or before now it is not applied, and every balance is the      *)
(* minimum-payment forecast.                                               *)
(***************************************************************************)
C6_AppliedOnlyAfterNow ==
    \A i \in RowIdx :
        i >= 2 /\ Accts # {} /\ AllForecast(i) /\ Available(i) > 0 =>
            /\ AfterNow(i) => Applied(i)
            /\ ~AfterNow(i) => MinPayOnly(i)

\* the claim as stated: nothing but all-forecast and available > 0 gates it
C6_AppliedWheneverAllForecast ==
    \A i \in RowIdx :
        i >= 2 /\ Accts # {} /\ AllForecast(i) /\ Available(i) > 0 =>
            Applied(i)

\* an all-forecast month not after now, with budget left and debt to pay
C6_Witness ==
    \E i \in RowIdx :
        /\ i >= 2 /\ Accts # {} /\ AllForecast(i) /\ Available(i) > 0
        /\ ~AfterNow(i)
        /\ \E a \in Accts : Fc(a, i) > 0 /\ rows[i][a] = Fc(a, i)

(***************************************************************************)
(* C7  Mixed month: when at least one account's balance comes from a       *)
(* statement or the latest-balance anchor, no extra paydown is applied:    *)
(* every forecasting account shows its minimum-payment forecast.           *)
(***************************************************************************)
C7_MixedMonthNoPaydown ==
    \A i \in RowIdx :
        i >= 2 /\ ~AllForecast(i) =>
            \A a \in Accts : Forecasts(a, i) => rows[i][a] = Fc(a, i)

\* a mixed month after now in which the budget would have paid something
C7_Witness ==
    \E i \in RowIdx : \E a, b \in Accts :
        /\ i >= 2 /\ AfterNow(i)
        /\ ~Forecasts(b, i)
        /\ Forecasts(a, i) /\ Fc(a, i) > 0 /\ rows[i][a] = Fc(a, i)
        /\ BudgetAbs - Mp(a, i) > 0

(***************************************************************************)
(* C8  Budget shortfall: when all accounts forecast and                    *)
(* |debt_budget| - sum(minimum payments) <= 0, every balance is the        *)
(* previous balance plus a month of interest minus the minimum payment,    *)
(* floored at 0.                                                           *)
(***************************************************************************)
C8_ShortfallNoPaydown ==
    \A i \in RowIdx :
        i >= 2 /\ Accts # {} /\ AllForecast(i) /\ Available(i) <= 0 =>
            MinPayOnly(i)

\* a budget that the minimum payments use up, in a month after now
C8_Witness ==
    \E i \in RowIdx :
        /\ WaterfallMonth(i) /\ BudgetAbs > 0 /\ Available(i) <= 0
        /\ \E a \in Accts : rows[i][a] > 0

(***************************************************************************)
(* C9  Every forecast balance is >= 0, before and after the waterfall      *)
(* allocation.                                                             *)
(***************************************************************************)
C9_ForecastNonNegative ==
    /\ \A i \in RowIdx : \A a \in Accts :
          i >= 2 /\ Forecasts(a, i) =>
              rows[i][a] >= 0 /\ forecast_next(a, rows[i - 1][a]) >= 0
    /\ \A a \in DOMAIN creditlines : \A bal \in {Dollars(-20), 0, Dollars(15), Dollars(100)} :
          forecast_next(a, bal) >= 0

\* a negative previous balance forecast next to a positive one
C9_Witness ==
    \E i \in RowIdx : \E a, b \in Accts :
        /\ i >= 2 /\ Forecasts(a, i) /\ rows[i - 1][a] < 0 /\ rows[i][a] = 0
        /\ Forecasts(b, i) /\ rows[i - 1][b] > 0

(***************************************************************************)
(* C10  With no qualifying account having statement history the engine     *)
(* produces zero rows and warns "No statement data for debt summary        *)
(* table", in both modes.                                                  *)
(***************************************************************************)
C10_NoDataNoRows ==
    pc = "done" /\ accs = <<>> =>
        /\ rows = <<>>
        /\ NoStatementData \in SeqToSet(warnings)

(***************************************************************************)
(* C11  The warning "No debt budget specified" is given exactly when the   *)
(* user has no "debt" Budget row; a Budget row whose value is 0 gives no   *)
(* warning.  In both cases the budget is 0, rows are still produced (at    *)
(* least one when a qualifying account has statements, unless the mode is  *)
(* historical-only and the earliest statement is after now), and a         *)
(* forecasting account whose row follows non-negative balances shows its   *)
(* min-payment-only forecast: nothing is paid beyond the minimum.          *)
(***************************************************************************)
NonNegativePrev(i) == \A a \in Accts : rows[i - 1][a] >= 0

NowKey == MonthKey(now.year, now.month)

C12_HistoricalOnlyRange ==
    /\ [](~do_forecasting =>
            \A i \in RowIdx : RowKey(i) = StartKey + i - 1 /\ ~AfterNow(i))
    /\ [](~do_forecasting /\ pc = "done" =>
            /\ Len(rows) = HistoryRows
            /\ rows # <<>> => RowKey(Len(rows)) = NowKey
            /\ StartKey > NowKey => rows = <<>>)
    /\ [][~do_forecasting /\ pc = "loop" =>
            (pc' = "done" <=> MonthKey(year, month) > NowKey)]_vars

\* statements from November 2018 on, now January 2019: the three rows
\* Nov 2018, Dec 2018, Jan 2019, across the year boundary
C12_Witness ==
    /\ ~do_forecasting /\ pc = "done" /\ Accts # {}
    /\ Len(rows) = 3
    /\ RowKey(1) = MonthKey(2018, 11)
    /\ RowKey(3) = NowKey

\* the earliest statement is after now: the historical-only table is empty
C12_EmptyWhenStartAfterNow ==
    /\ ~do_forecasting /\ pc = "done" /\ Accts # {}
    /\ StartKey > NowKey
    /\ rows = <<>>

(***************************************************************************)
(* C13  Row sequencing: the first row is labelled with the earliest        *)
(* statement (year, month) over all qualifying accounts, and every later   *)
(* row with the calendar month that follows its predecessor's: the month   *)
(* is one of the twelve, December is followed by January of the next year, *)
(* and there is neither a gap nor a repeat.                                *)
(***************************************************************************)
QualifyingStatements == {s \in statements : s.account \in Accts}

C13_RowSequencing ==
    \A i \in RowIdx :
        /\ rows[i]["month"].abbr \in SeqToSet(MonthAbbr)
        /\ i = 1 /\ Accts # {} =>
             /\ \E s \in QualifyingStatements :
                  s.year = RowYear(1) /\ s.month = RowMonth(1)
             /\ \A s \in QualifyingStatements :
                  DateLE(RowYear(1), RowMonth(1), s.year, s.month)
        /\ i >= 2 =>
             IF RowMonth(i - 1) = 12
             THEN RowMonth(i) = 1 /\ RowYear(i) = RowYear(i - 1) + 1
             ELSE RowMonth(i) = RowMonth(i - 1) + 1 /\ RowYear(i) = RowYear(i - 1)

\* two accounts, the first statement of B (Nov 2018) earlier than that of A:
\* rows Nov 2018, Dec 2018 and, across the year boundary, Jan 2019
C13_Witness ==
    /\ Accts = {"A", "B"} /\ Len(rows) = 3
    /\ \A s \in statement_set("A") : MonthKey(s.year, s.month) > RowKey(1)
    /\ RowMonth(1) = 11 /\ RowMonth(2) = 12 /\ RowMonth(3) = 1
    /\ RowYear(3) = RowYear(2) + 1

(***************************************************************************)
(* C14  Gap anchoring: for a month in which the account has no statement   *)
(* but which is on or before the account's latest statement month (months  *)
(* before its first statement included), the row shows the latest known    *)
(* balance, and calc_balance returns (latest balance, None) whatever       *)
(* previous balance is passed in.                                          *)
(***************************************************************************)
LatestBalance(a) ==
    (CHOOSE s \in statement_set(a) :
        MonthKey(s.year, s.month) = LatestKey(a)).balance

\* the months calc_balance is probed with besides the months of the rows
ProbeDates == {[year |-> 2017, month |-> 12], [year |-> 2018, month |-> 10],
               Nov18, Dec18, Jan19, Feb19, [year |-> 2019, month |-> 3]}

GapDates(a) ==
    {d \in ProbeDates :
        /\ MonthKey(d.year, d.month) <= LatestKey(a)
        /\ \A s \in statement_set(a) : ~(s.year = d.year /\ s.month = d.month)}

C14_GapAnchoring ==
    pc # "start" =>
        /\ \A i \in RowIdx : \A a \in Accts :
               StmtAt(a, i) = {} /\ ~Forecasts(a, i) =>
                   rows[i][a] = LatestBalance(a)
        /\ rows = <<>> => \A a \in Accts : \A d \in GapDates(a) :
             \A prev \in {Dollars(-20), 0, Dollars(400)} :
               calc_balance(a, d.month, d.year, prev,
                            latest_stmnts[a], balances[a])
                 = [bal |-> LatestBalance(a), min_pay |-> {}]

\* a month between two statements of an account whose balance moved: the row
\* shows the later statement's balance, not the balance of the row before
C14_Witness ==
    \E i \in RowIdx : \E a \in Accts :
        /\ i >= 2 /\ StmtAt(a, i) = {} /\ ~Forecasts(a, i)
        /\ StmtAt(a, i - 1) # {}
        /\ rows[i][a] = LatestBalance(a)
        /\ rows[i][a] # rows[i - 1][a]

(***************************************************************************)
(* C15  The test "on or before the latest statement" is lexicographic on   *)
(* (year, month): a month (y, m) is historical for an account whose latest *)
(* statement is (Y, M) exactly when y < Y, or y = Y and m <= M.  December  *)
(* of the year before a February statement is historical; January after a  *)
(* December statement is forecast.                                         *)
(***************************************************************************)
LatestStatementOf(a) ==
    CHOOSE s \in statement_set(a) : MonthKey(s.year, s.month) = LatestKey(a)

OnOrBeforeLatest(a, y, m) ==
    LET L == LatestStatementOf(a)
    IN  y < L.year \/ (y = L.year /\ m <= L.month)

\* every month of the years around the modelled statements
CalendarDates == {[year |-> y, month |-> m] : y \in 2017..2020, m \in 1..12}

C15_LexicographicRegime ==
    pc # "start" =>
        /\ rows = <<>> => \A a \in Accts : \A d \in CalendarDates :
             (calc_balance(a, d.month, d.year, Dollars(400),
                           latest_stmnts[a], balances[a]).min_pay = {})
               <=> OnOrBeforeLatest(a, d.year, d.month)
        /\ \A i \in RowIdx : \A a \in Accts :
             IF OnOrBeforeLatest(a, RowYear(i), RowMonth(i))
             THEN \/ \E s \in StmtAt(a, i) : rows[i][a] = s.balance
                  \/ StmtAt(a, i) = {} /\ rows[i][a] = LatestBalance(a)
             ELSE i >= 2 /\ ~WaterfallMonth(i) => rows[i][a] = Fc(a, i)

\* the row of January 2019 for an account whose latest statement is of
\* December 2018: the smaller month number of the later year is forecast
C15_Witness ==
    \E i \in RowIdx : \E a \in Accts :
        /\ i >= 2 /\ ~WaterfallMonth(i)
        /\ RowMonth(i) = 1 /\ RowYear(i) = 2019
        /\ LatestStatementOf(a).month = 12 /\ LatestStatementOf(a).year = 2018
        /\ Mp(a, i) > 0
        /\ rows[i][a] = Fc(a, i) /\ rows[i][a] # LatestBalance(a)

(***************************************************************************)
(* C16  For a balance bal >= 0, min_pay(bal) is the greater of the dollar  *)
(* floor min_pay_dlr and min_pay_pct percent of bal, capped at bal.  With  *)
(* floor 30 and 10 percent: min_pay(500) = 50, min_pay(100) = 30 and       *)
(* min_pay(15) = 15.                                                       *)
(***************************************************************************)
C16_MinPayFormula ==
    call.fn = "min_pay" /\ call.bal >= 0 =>
        LET c == creditlines[call.account]
            pctpart == (c.min_pay_pct * call.bal) \div 100
        IN  /\ call.ret <= call.bal
            /\ call.ret < call.bal =>
                 /\ call.ret >= c.min_pay_dlr /\ call.ret >= pctpart
                 /\ call.ret = c.min_pay_dlr \/ call.ret = pctpart
            /\ call.ret = call.bal =>
                 c.min_pay_dlr >= call.bal \/ pctpart >= call.bal
            /\ c.min_pay_dlr = Dollars(30) /\ c.min_pay_pct = 10 =>
                 /\ call.bal = Dollars(500) => call.ret = Dollars(50)
                 /\ call.bal = Dollars(100) => call.ret = Dollars(30)
                 /\ call.bal = Dollars(15) => call.ret = Dollars(15)

\* floor 30, 10 percent, balance 15: the payment is the whole balance
C16_Witness ==
    /\ call.fn = "min_pay" /\ call.bal = Dollars(15)
    /\ creditlines[call.account].min_pay_dlr = Dollars(30)
    /\ creditlines[call.account].min_pay_pct = 10
    /\ call.ret = Dollars(15)

(***************************************************************************)
(* C17  In the forecast regime (a month after the latest statement)        *)
(* calc_balance(month, year, prev) returns the balance                     *)
(* max(prev * (1 + rate/100/12) - min_pay(prev), 0) together with          *)
(* min_pay(prev), and forecast_next computes that balance.  With floor 30  *)
(* and rate 12, prev 400 gives (374, 30); with floor 30 and rate 24,       *)
(* forecast_next(100) is 72.                                               *)
(***************************************************************************)
C17_ForecastRegime ==
    LET c == creditlines[call.account]
        flat30 == c.min_pay_dlr = Dollars(30) /\ c.min_pay_pct = 0
    IN  /\ call.fn = "calc_balance"
             /\ ~OnOrBeforeLatest(call.account, call.year, call.month) =>
               /\ call.ret = [bal |-> ExpForecast(call.account, call.bal),
                              min_pay |-> {ExpMinPay(call.account, call.bal)}]
               /\ flat30 /\ c.interest_rate = 12 /\ call.bal = Dollars(400) =>
                    call.ret = [bal |-> Dollars(374),
                                min_pay |-> {Dollars(30)}]
        /\ call.fn = "forecast_next" =>
               /\ call.ret = ExpForecast(call.account, call.bal)
               /\ flat30 /\ c.interest_rate = 24 /\ call.bal = Dollars(100) =>
                    call.ret = Dollars(72)

\* calc_balance(12, 2018, 400) after a statement of November 2018, floor 30
\* and rate 12: (374, 30)
C17_Witness ==
    /\ call.fn = "calc_balance" /\ call.month = 12 /\ call.year = 2018
    /\ call.bal = Dollars(400)
    /\ creditlines[call.account].interest_rate = 12
    /\ creditlines[call.account].min_pay_pct = 0
    /\ call.ret = [bal |-> Dollars(374), min_pay |-> {Dollars(30)}]

(***************************************************************************)
(* C18  In every row, Total is the sum of the balances the row shows for   *)
(* the accounts, that is, of the balances after the waterfall; the row     *)
(* holds the accounts, "Total" and the month label, and the label takes no *)
(* part in the sum.                                                        *)
(***************************************************************************)
Shown(i, a) == IF a \in Accts THEN rows[i][a] ELSE 0

C18_TotalIsSum ==
    \A i \in RowIdx :
        /\ DOMAIN rows[i] = Accts \cup {"Total", "month"}
        /\ rows[i]["Total"] = Shown(i, "A") + Shown(i, "B")

\* a month in which the waterfall pays part of the forecast balances of two
\* accounts and something is left to pay
C18_Witness ==
    \E i \in RowIdx :
        /\ WaterfallMonth(i) /\ Accts = {"A", "B"}
        /\ rows[i]["A"] + rows[i]["B"] < Fc("A", i) + Fc("B", i)
        /\ rows[i]["Total"] > 0
        /\ rows[i]["Total"] = rows[i]["A"] + rows[i]["B"]

(***************************************************************************)
(* C19  formatted_rows returns new rows holding the rounded text of every  *)
(* number and leaves self.rows as it is, however often it is called: once  *)
(* the table is constructed its rows never change, and every forecast was  *)
(* computed from the unrounded balance of the row before.                  *)
(***************************************************************************)
\* the whole number a formatted cell displays, without its sign
RECURSIVE Displayed(_)
Displayed(groups) ==
    IF Len(groups) = 1 THEN groups[1]
    ELSE 1000 * Displayed(SubSeq(groups, 1, Len(groups) - 1))
           + groups[Len(groups)]

\* cell shows amount v rounded to the nearest whole currency unit
ShowsRounded(cell, v) ==
    /\ cell.neg = (v < 0)
    /\ 2 * Abs(Dollars(Displayed(cell.groups)) - Abs(v)) <= UnitsPerDollar

C19_FormattingLeavesRows ==
    /\ [][pc = "done" => rows' = rows]_vars
    /\ [][fmt_rows' # fmt_rows =>
            /\ pc = "done" /\ Len(fmt_rows') = Len(rows)
            /\ \A i \in 1..Len(rows) :
                 /\ DOMAIN fmt_rows'[i] = DOMAIN rows[i]
                 /\ fmt_rows'[i]["month"] = rows[i]["month"]
                 /\ \A a \in Accts \cup {"Total"} :
                      ShowsRounded(fmt_rows'[i][a], rows[i][a])]_vars
    /\ [](\A i \in RowIdx : i >= 2 =>
            IF WaterfallMonth(i) /\ Available(i) > 0 THEN Applied(i)
            ELSE \A a \in Accts : Forecasts(a, i) => rows[i][a] = Fc(a, i))

\* formatted_rows has returned; a row still holds a balance with cents,
\* displayed as another amount, and the next row was forecast from it
C19_Witness ==
    /\ fmt_rows # <<>>
    /\ \E i \in 1..(Len(rows) - 1) : \E a \in Accts :
        /\ rows[i][a] > 0 /\ rows[i][a] % UnitsPerDollar # 0
        /\ Dollars(Displayed(fmt_rows[i][a].groups)) # rows[i][a]
        /\ Forecasts(a, i + 1)
        /\ rows[i + 1][a] <= ExpForecast(a, rows[i][a])

(***************************************************************************)
(* C25  In forecast mode the loop stops after the first row whose Total is *)
(* 0, also while an account still has statements in later months: the      *)
(* table ends before the latest statement month only with a last row of    *)
(* Total 0 or with 120 rows, and it covers every month through the latest  *)
(* statement month otherwise.                                              *)
(***************************************************************************)
LastHistoryKey ==
    CHOOSE k \in {LatestKey(a) : a \in Accts} :
        \A a \in Accts : LatestKey(a) <= k

NewestTotal == rows[Len(rows)]["Total"]

C25_ZeroTotalEndsHistory ==
    /\ [][do_forecasting /\ pc = "loop" /\ rows # <<>> /\ NewestTotal = 0 =>
            pc' = "done" /\ rows' = rows]_vars
    /\ [](do_forecasting /\ pc = "done" /\ Accts # {}
            /\ RowKey(Len(rows)) < LastHistoryKey =>
               NewestTotal = 0 \/ Len(rows) = MAX_ROWS)

\* the table ended on a row of Total 0 although a later statement exists
C25_Witness ==
    /\ do_forecasting /\ pc = "done" /\ Accts # {}
    /\ RowKey(Len(rows)) < LastHistoryKey
    /\ NewestTotal = 0 /\ Len(rows) < MAX_ROWS

\* the claim as stated: with a statement span under 120 months the rows
\* reach the latest statement month
C25_HistoryAlwaysCovered ==
    do_forecasting /\ pc = "done" /\ Accts # {}
        /\ LastHistoryKey - StartKey + 1 < MAX_ROWS =>
            RowKey(Len(rows)) >= LastHistoryKey

(***************************************************************************)
(* C26  Budget conservation: in a month in which the allocation applies    *)
(* with available = |debt_budget| - sum of the minimum payments > 0, the   *)
(* row's Total is max(sum of the forecast balances - available, 0); what   *)
(* is paid beyond the minimum payments never exceeds available, and every  *)
(* balance stays between 0 and its forecast.                               *)
(***************************************************************************)
SumFc(i) == SumOver([a \in Accts |-> Fc(a, i)], Accts)

C26_BudgetConservation ==
    \A i \in RowIdx :
        WaterfallMonth(i) /\ Available(i) > 0 =>
            /\ rows[i]["Total"] =
                 (IF SumFc(i) - Available(i) > 0
                  THEN SumFc(i) - Available(i) ELSE 0)
            /\ SumFc(i) - rows[i]["Total"] <= Available(i)
            /\ \A a \in Accts : 0 <= rows[i][a] /\ rows[i][a] <= Fc(a, i)

\* two accounts, the first in priority order is paid off and the second only
\* in part: the whole of available is spent
C26_Witness ==
    \E i \in RowIdx :
        /\ WaterfallMonth(i) /\ Available(i) > 0 /\ Len(accs) = 2
        /\ Fc(accs[1], i) > 0 /\ rows[i][accs[1]] = 0
        /\ 0 < rows[i][accs[2]] /\ rows[i][accs[2]] < Fc(accs[2], i)
        /\ rows[i]["Total"] = SumFc(i) - Available(i)

(***************************************************************************)
(* C27  Forecast chaining: the previous balance a forecasting account      *)
(* starts month k+1 from is its value in row k, after the allocation of    *)
(* row k, neither the forecast of row k before the allocation nor the      *)
(* cached latest statement balance; an extra paydown in row k therefore    *)
(* lowers the minimum payment and the forecast of row k+1.                 *)
(***************************************************************************)
PaidDownBefore(a, i) ==
    i >= 3 /\ Forecasts(a, i - 1) /\ rows[i - 1][a] < Fc(a, i - 1)

C27_ForecastChaining ==
    \A i \in RowIdx : \A a \in Accts :
        i >= 2 /\ Forecasts(a, i) =>
            /\ rows[i][a] <= ExpForecast(a, rows[i - 1][a])
            /\ rows[i][a] < ExpForecast(a, rows[i - 1][a]) =>
                 WaterfallMonth(i) /\ Available(i) > 0 /\ Applied(i)
            /\ PaidDownBefore(a, i) =>
                 /\ Mp(a, i) <= ExpMinPay(a, Fc(a, i - 1))
                 /\ rows[i][a] <= ExpForecast(a, Fc(a, i - 1))

\* an account paid down in part in the row before: its minimum payment and
\* its balance are below what the forecast before the allocation would give
C27_Witness ==
    \E i \in RowIdx : \E a \in Accts :
        /\ i >= 2 /\ Forecasts(a, i) /\ PaidDownBefore(a, i)
        /\ rows[i - 1][a] > 0
        /\ rows[i - 1][a] # balances[a]
        /\ 0 < Mp(a, i) /\ Mp(a, i) < ExpMinPay(a, Fc(a, i - 1))
        /\ rows[i][a] < ExpForecast(a, Fc(a, i - 1))

(***************************************************************************)
(* C28  In forecast mode with at least one qualifying account, no row but  *)
(* the last has Total 0, and a table of fewer than 120 rows ends on a row  *)
(* whose Total is exactly 0.                                               *)
(***************************************************************************)
C28_ZeroTotalOnlyLast ==
    do_forecasting /\ Accts # {} =>
        /\ Len(rows) >= 2 => rows[Len(rows) - 1]["Total"] # 0
        /\ pc = "done" /\ Len(rows) < MAX_ROWS =>
             rows # <<>> /\ NewestTotal = 0

\* a finished payoff: several rows, all but the last with a positive Total
C28_Witness ==
    /\ do_forecasting /\ pc = "done" /\ Accts # {}
    /\ Len(rows) >= 3 /\ Len(rows) < MAX_ROWS
    /\ rows[1]["Total"] > 0 /\ rows[Len(rows) - 1]["Total"] > 0
    /\ NewestTotal = 0

(***************************************************************************)
(* C29  A paid-off account stays paid off and frees its budget: an account *)
(* in the forecast regime whose balance in the row before is 0 has a       *)
(* minimum payment of 0 and a balance of 0, takes nothing out of           *)
(* available, and the whole budget left after the other accounts' minimum  *)
(* payments goes to the accounts after it in priority order.               *)
(***************************************************************************)
PaidOff(a, i) == i >= 2 /\ Forecasts(a, i) /\ rows[i - 1][a] = 0

C29_PaidOffStaysPaidOff ==
    \A i \in RowIdx : \A a \in Accts :
        PaidOff(a, i) =>
            /\ min_pay(a, rows[i - 1][a]) = 0
            /\ forecast_next(a, rows[i - 1][a]) = 0
            /\ rows[i][a] = 0
            /\ \A b \in Accts \ {a} :
                 WaterfallMonth(i) /\ rows[i - 1][b] >= 0 =>
                    LET avail == BudgetAbs - Mp(b, i)
                    IN  rows[i][b] =
                          IF avail <= 0 THEN Fc(b, i)
                          ELSE IF Fc(b, i) <= avail THEN 0
                          ELSE Fc(b, i) - avail

\* the first account in priority order, with a dollar floor, was paid off
\* in the row before: the second account receives the whole budget
C29_Witness ==
    \E i \in RowIdx :
        /\ WaterfallMonth(i) /\ Len(accs) = 2 /\ BudgetAbs > 0
        /\ PaidOff(accs[1], i)
        /\ creditlines[accs[1]].min_pay_dlr > 0
        /\ i >= 3 /\ rows[i - 2][accs[1]] > 0
        /\ Fc(accs[2], i) > 0
        /\ rows[i][accs[2]] < Fc(accs[2], i)
        /\ rows[i][accs[1]] = 0

(***************************************************************************)
(* C30  The first row never forecasts: the start month is the earliest     *)
(* statement month over the accounts of the table, each of which has a     *)
(* statement, so in the first row every account shows a statement balance  *)
(* or its latest known balance with no minimum payment, whatever previous  *)
(* balance is passed in, and no budget is spent in the first row.          *)
(***************************************************************************)
C30_FirstRowNeverForecasts ==
    Len(rows) = 1 =>
        \A a \in Accts :
            /\ ~Forecasts(a, 1)
            /\ \/ \E s \in StmtAt(a, 1) : rows[1][a] = s.balance
               \/ StmtAt(a, 1) = {} /\ rows[1][a] = LatestBalance(a)
            /\ \A prev \in {Dollars(-20), 0, balances[a], Dollars(400)} :
                 calc_balance(a, RowMonth(1), RowYear(1), prev,
                              latest_stmnts[a], balances[a])
                   = [bal |-> rows[1][a], min_pay |-> {}]

\* the only statement is after now and a budget is set: the first row is a
\* month after now and shows the statement balance untouched
C30_Witness ==
    /\ Len(rows) = 1 /\ Accts # {} /\ AfterNow(1) /\ BudgetAbs > 0
    /\ \E a \in Accts : \E s \in StmtAt(a, 1) :
         s.balance > 0 /\ rows[1][a] = s.balance

(***************************************************************************)
(* C24  The function debt_summary respects the cap of 120 rows: whatever   *)
(* the accounts and their interest and payment rules, debts that never     *)
(* reach a zero Total included, it returns at most 120 rows.               *)
(***************************************************************************)
C24_SummaryAtMost120Rows == pc = "returned" => Len(rows) <= MAX_ROWS

\* what the function does: the counter is compared after the row is appended
\* and counts the rows before it, so the longest table has one row more
C24_SummaryAtMost121Rows ==
    /\ pc = "returned" => Len(rows) <= MAX_ROWS + 1
    /\ pc = "summary_loop" => count = Len(rows) /\ count <= MAX_ROWS

C24_SummaryReturns121Rows == pc = "returned" /\ Len(rows) = MAX_ROWS + 1

(***************************************************************************)
(* C21  After any sequence of statement operations (create, update, bulk   *)
(* upload, delete, bulk delete) by any users there is at most one          *)
(* Statement per (account, year, month), so the lookup of calc_balance by  *)
(* year and month in the account's statement_set finds at most one row.    *)
(***************************************************************************)
StatementsOf(acc, yr, mo) ==
    {s \in statements : s.account = acc /\ s.year = yr /\ s.month = mo}

C21_OnePerAccountMonth ==
    pc = "views" =>
        \A s \in statements :
            Cardinality(StatementsOf(s.account, s.year, s.month)) <= 1

\* what the unique constraint gives: one Statement per (user, account,
\* year, month)
C21_OnePerUserAccountMonth ==
    pc = "views" =>
        \A s, t \in statements :
            s.user = t.user /\ s.account = t.account
                /\ s.year = t.year /\ s.month = t.month => s = t

\* two users hold a statement each for the same credit line and month
C21_TwoUsersOneAccountMonth ==
    \E s, t \in statements :
        /\ s.user # t.user /\ s.account = t.account
        /\ s.year = t.year /\ s.month = t.month

(***************************************************************************)
(* C22  The bulk upload never overwrites: a CSV row whose (user, account,  *)
(* year, month) already has a Statement leaves that statement and its      *)
(* balance as they were and is counted under "Existing Statements Not      *)
(* Overwritten"; only rows for months without a statement create new       *)
(* statements, counted under "New Statements Added".                       *)
(***************************************************************************)
\* the rows of the upload that name a credit line of the user
KnownRows(req) ==
    {i \in 1..Len(req.csv) : <<req.user, req.csv[i].Account>> \in DOMAIN creditlines}

\* row i is for a key that held a statement before the upload
RowHasStatement(req, i) ==
    KeyTaken(statements, req.user, <<req.user, req.csv[i].Account>>,
             req.csv[i].Date.year, req.csv[i].Date.month)

\* row i repeats the account and month of an earlier row of the same upload
RowRepeatsEarlier(req, i) ==
    \E j \in 1..(i - 1) :
        /\ req.csv[j].Account = req.csv[i].Account
        /\ req.csv[j].Date.year = req.csv[i].Date.year
        /\ req.csv[j].Date.month = req.csv[i].Date.month

\* the statement row that row i of the upload stands for
RowStatement(req, i) ==
    [user |-> req.user, account |-> <<req.user, req.csv[i].Account>>,
     year |-> req.csv[i].Date.year, month |-> req.csv[i].Date.month,
     balance |-> req.csv[i].Balance]

NeverOverwrites(req, after, cnt) ==
    /\ statements \subseteq after
    /\ \A i \in KnownRows(req) :
          RowHasStatement(req, i) =>
              \A t \in after :
                  KeyTaken({t}, req.user, <<req.user, req.csv[i].Account>>,
                           req.csv[i].Date.year, req.csv[i].Date.month)
                      => t \in statements
    /\ after \ statements =
          {RowStatement(req, i) :
              i \in {k \in KnownRows(req) :
                        ~RowHasStatement(req, k) /\ ~RowRepeatsEarlier(req, k)}}
    /\ cnt.added = Cardinality(after \ statements)
    /\ cnt.existing =
          Cardinality({i \in KnownRows(req) :
                          RowHasStatement(req, i) \/ RowRepeatsEarlier(req, i)})

C22_BulkUploadNeverOverwrites ==
    [][request'.view = "StatementBulkUpdate" =>
          NeverOverwrites(request', statements', counts')]_vars

\* an upload with a row for November 2018 (2000.00) and a new month has
\* left the statement of November 2018 at 1500.00
C22_Witness ==
    /\ request.view = "StatementBulkUpdate"
    /\ counts.existing = 1
    /\ counts.added = 1
    /\ \E i \in 1..Len(request.csv) :
          /\ request.csv[i].Balance = Dollars(2000)
          /\ \E s \in statements :
                /\ s.user = request.user
                /\ s.account = <<request.user, request.csv[i].Account>>
                /\ s.year = request.csv[i].Date.year
                /\ s.month = request.csv[i].Date.month
                /\ s.balance = Dollars(1500)

(***************************************************************************)
(* C23  In a bulk upload the rows naming a credit line the user does not   *)
(* have are skipped and counted under "Unknown Accounts", no statement is  *)
(* created for them, and the credit lines after the upload are the ones    *)
(* before it (no credit line for the unknown name remains); the rows for   *)
(* known accounts are still imported.                                      *)
(***************************************************************************)
UnknownRows(req) == (1..Len(req.csv)) \ KnownRows(req)

UnknownAccountsSkipped(req, lines, after, cnt) ==
    /\ cnt.unknown = Cardinality(UnknownRows(req))
    /\ lines = creditlines
    /\ \A i \in UnknownRows(req) :
          /\ <<req.user, req.csv[i].Account>> \notin DOMAIN lines
          /\ ~\E s \in after : s.account = <<req.user, req.csv[i].Account>>
    /\ \A i \in KnownRows(req) :
          KeyTaken(after, req.user, <<req.user, req.csv[i].Account>>,
                   req.csv[i].Date.year, req.csv[i].Date.month)

C23_UnknownAccountsSkipped ==
    [][request'.view = "StatementBulkUpdate" =>
          UnknownAccountsSkipped(request', creditlines', statements',
                                 counts')]_vars

\* an upload with one row for an unknown account and one row for a known
\* account: the first is counted as unknown, the second is imported
C23_Witness ==
    /\ request.view = "StatementBulkUpdate"
    /\ counts.unknown = 1
    /\ counts.added = 1
    /\ \E i \in 1..Len(request.csv) :
          /\ request.csv[i].Account = "Unknown Account"
          /\ <<request.user, "Unknown Account">> \notin DOMAIN creditlines
    /\ \E s \in statements :
          s.user = request.user /\ s.balance \in {Dollars(2000), Dollars(3000)}

====
